---- MODULE Spec2Model ----
(***************************************************************************)
(* The Home component of src/pages/index.js as a state machine.           *)
(*                                                                         *)
(* The React state of the component (isLocked, orientation,               *)
(* rotationAttempt, error, isAIPopupOpen, isPermissionGranted) is the     *)
(* state of the model.  A state update, the render it causes and the      *)
(* effects of that render are one step: the deviceorientation effect is   *)
(* re-run (cleanup, then a fresh closure) in the step that changes one of *)
(* its dependencies.  toggleLock is an async function: every await whose  *)
(* promise is settled by the platform splits it into steps, and several   *)
(* invocations may be suspended at once; an invocation keeps the isLocked *)
(* of the render it was started in.  The platform (permission prompt,     *)
(* fullscreen, orientation lock, tilt samples, orientation changes,       *)
(* timers) is the environment.                                             *)
(* The orientation-change listener is registered whether or not the       *)
(* orientation is locked, and the platform drops its lock when the        *)
(* document leaves fullscreen (which the catch of the lock path makes it  *)
(* do), so a change notification may arrive in any state.                 *)
(***************************************************************************)
EXTENDS Integers, Sequences, FiniteSets

\* ---------------------------------------------------------------- bounds
\* toggleLock invocations that may be suspended at the same time
MaxInv == 2
\* auto-clear timers that may be pending at the same time
MaxTimers == 2
\* the excursion counters saturate here
MaxRun == 2
\* the angles classified: beta in -MaxBeta..MaxBeta, gamma in -MaxGamma..MaxGamma
MaxBeta == 180
MaxGamma == 90

\* ------------------------------------------------------ program constants
\* const THRESHOLD = 50 (degrees)
THRESHOLD == 50
\* setTimeout(..., 3000): the delay in seconds, one Tick is one second
AlertDuration == 3

\* ------------------------------------------------------------- messages
PermissionDeniedMsg == "Permission for rotation detection was denied."
PermissionThrewMsg == "Could not request orientation permission."
LockFallbackMsg == "Failed to lock orientation."
UnsupportedMsg == "Orientation lock not supported on this browser."
ReferenceErrorMsg == "lastPhysicalOrientation is not defined"
UnlockFailedMsg == "Failed to unlock orientation."
\* err.message of a promise the platform rejects (it may be empty)
RejectMessages == {"", "NotAllowedError"}

\* screen.orientation.type
OrientationTypes == {"portrait-primary", "portrait-secondary", "landscape-primary"}

\* (beta, gamma) of the deviceorientation events delivered
SampleInputs == {<<10, 80>>, <<85, 5>>, <<5, 75>>, <<50, 50>>, <<60, 80>>, <<-100, 0>>}

Invocations == 1..MaxInv

VARIABLES
  isLocked,             \* useState(false)
  orientation,          \* useState("unknown"), then screen.orientation.type
  rotationAttempt,      \* useState(false)
  error,                \* useState("")
  isAIPopupOpen,        \* useState(false)
  isPermissionGranted,  \* useState(false)
  listening,            \* the deviceorientation listener of the second effect is registered
  isAlerting,           \* let isAlerting of the registered listener's closure
  timers,               \* pending setTimeout callbacks: seconds left, oldest first
  inv,                  \* the toggleLock invocations: where each is suspended
  fullscreen,           \* document.fullscreenElement is set
  platform,             \* which capabilities the browser has
  last,                 \* observation: how the toggleLock that finished last went
  excursion,            \* observation: the current run of disagreeing samples
  sinceAlert,           \* observation: seconds since the latest alert (saturating)
  sample,               \* observation: the class of the latest deviceorientation event
  held,                 \* the platform holds the orientation lock
  probe                 \* a (beta, gamma) pair and its classification

vars ==
  <<isLocked, orientation, rotationAttempt, error, isAIPopupOpen, isPermissionGranted,
    listening, isAlerting, timers, inv, fullscreen, platform, last, excursion, sinceAlert,
    sample, held, probe>>

\* ------------------------------------------------------- pure functions
Abs(x) == IF x < 0 THEN -x ELSE x

MinOf(a, b) == IF a < b THEN a ELSE b

\* the landscape test made before the portrait test
ClassifyGammaFirst(beta, gamma) ==
  IF Abs(gamma) > THRESHOLD THEN "landscape"
  ELSE IF Abs(beta) > THRESHOLD /\ Abs(beta) < (180 - THRESHOLD) THEN "portrait"
  ELSE ""

\* the classification of a sample; "" is the initial currentPhysical
Classify(beta, gamma) ==
  IF Abs(beta) > THRESHOLD /\ Abs(beta) < (180 - THRESHOLD) THEN "portrait"
  ELSE IF Abs(gamma) > THRESHOLD THEN "landscape"
  ELSE ""

\* orientation.includes("portrait")
IncludesPortrait(o) == o \in {"portrait-primary", "portrait-secondary"}

\* === written for !==
MismatchInverted(o, physical) == IncludesPortrait(o) = (physical = "portrait")

\* physical doesn't match logical lock
Mismatch(o, physical) == IncludesPortrait(o) # (physical = "portrait")

\* the guard without its !isLocked test
EffectGuardNoLock(locked, granted) == granted

\* the second effect subscribes unless (!isLocked || !isPermissionGranted)
EffectGuard(locked, granted) == locked /\ granted

\* any answer of the prompt taken for a grant
PermissionGrantedAlways(permission) == TRUE

\* permission === 'granted'
PermissionGranted(permission) == permission = "granted"

\* the rejection of the lock promise not thrown (a missing await)
LockAwaitAlwaysResumes(outcome) == TRUE

\* await screen.orientation.lock(currentType) falls through to setIsLocked(true)
\* when the promise resolves and throws into the catch when it rejects
LockAwaitResumes(outcome) == outcome = "resolved"

\* err.message without the fallback
LockErrorMessageNoFallback(message) == message

\* err.message || "Failed to lock orientation."
LockErrorMessage(message) == IF message # "" THEN message ELSE LockFallbackMsg

\* the else branch not clearing the latch
LatchStaysAfterAgreement(latch) == latch

\* isAlerting = false, when the sample agrees with the logical orientation
LatchAfterAgreement(latch) == FALSE

\* the else branch also hiding the alert
AlertClearedByAgreement(alert) == FALSE

\* the else branch of the comparison does not call setRotationAttempt
AlertAfterAgreement(alert) == alert

\* the timer callback leaving the alert up
AlertKeptByTimer(alert) == alert

\* setTimeout(() => setRotationAttempt(false), 3000)
AlertAfterTimer(alert) == FALSE

\* the permission request skipped
NeverNeedsPermission(granted) == FALSE

\* if (!isPermissionGranted)
NeedsPermission(granted) == ~granted

\* setIsLocked(false) left out of the unlock path
StaysLockedAfterUnlock(locked) == locked

\* screen.orientation.unlock(); setIsLocked(false)
IsLockedAfterUnlock(locked) == FALSE

\* lastPhysicalOrientation is assigned in toggleLock and declared nowhere
\* in the file (useRef is imported and never called): evaluating it throws
LastPhysicalOrientationDeclared == FALSE

\* ------------------------------------------------------------ records
\* an invocation: where it is suspended, the isLocked of the render it was
\* started in, what the permission prompt answered and whether its
\* fullscreen request was resolved
Idle == [pc |-> "idle", cLocked |-> FALSE, perm |-> "none", fs |-> "none"]

\* how an operation went: the platform's answers to its calls; n flips each
\* time an operation finishes
NoOp == [op |-> "none", perm |-> "none", fs |-> "none", lock |-> "none",
         unlock |-> "none", exit |-> "none", n |-> 0]

NoExcursion == [len |-> 0, alerts |-> 0, rearmed |-> FALSE]

\* no deviceorientation event yet; k flips with each event
NoSample == [physical |-> "", k |-> 0]

\* no pair classified yet
NoProbe == [beta |-> 0, gamma |-> 0, physical |-> "", done |-> FALSE]

\* screen.orientation && screen.orientation.lock
HasOrientationLock == platform.screenOrientation /\ platform.lock

\* screen.orientation && screen.orientation.unlock
HasOrientationUnlock == platform.screenOrientation

Platforms ==
  {p \in [screenOrientation : BOOLEAN, lock : BOOLEAN,
          requestFullscreen : BOOLEAN, requestPermission : BOOLEAN] :
     p.lock => p.screenOrientation}

\* the state after the first render and its effects: the first effect has
\* read screen.orientation.type when there is a screen.orientation
Init ==
  /\ platform \in Platforms
  /\ isLocked = FALSE
  /\ orientation \in (IF platform.screenOrientation THEN OrientationTypes ELSE {"unknown"})
  /\ rotationAttempt = FALSE
  /\ error = ""
  /\ isAIPopupOpen = FALSE
  /\ isPermissionGranted = FALSE
  /\ listening = FALSE
  /\ isAlerting = FALSE
  /\ timers = <<>>
  /\ inv = [i \in Invocations |-> Idle]
  /\ fullscreen = FALSE
  /\ last = NoOp
  /\ excursion = NoExcursion
  /\ sinceAlert = AlertDuration
  /\ sample = NoSample
  /\ held = FALSE
  /\ probe = NoProbe

\* ------------------------------------------------ render and effects
\* The second effect after a render: its cleanup removes the listener when
\* a dependency changed, and the effect registers a new one, with a fresh
\* isAlerting, when the guard lets it.
RunEffect ==
  LET changed == <<isLocked', isPermissionGranted', orientation'>>
                   # <<isLocked, isPermissionGranted, orientation>>
  IN /\ listening' = EffectGuard(isLocked', isPermissionGranted')
     /\ isAlerting' = IF changed \/ ~listening' THEN FALSE ELSE isAlerting
     /\ excursion' = IF ~listening' \/ IncludesPortrait(orientation') # IncludesPortrait(orientation)
                     THEN NoExcursion ELSE excursion

DetectorUntouched == UNCHANGED <<rotationAttempt, isAIPopupOpen, timers, sinceAlert, sample, probe>>

\* ------------------------------------------------------- toggleLock
\* the invocation returns
Finish(i, result) ==
  /\ inv' = [inv EXCEPT ![i] = Idle]
  /\ last' = [result EXCEPT !.n = 1 - last.n]

\* the invocation waits for the platform to settle a promise
Suspend(i, at, c) ==
  /\ inv' = [inv EXCEPT ![i] = [c EXCEPT !.pc = at]]
  /\ UNCHANGED last

LockResult(c) == [NoOp EXCEPT !.op = "lock", !.perm = c.perm, !.fs = c.fs]

UnlockResult(c) == [NoOp EXCEPT !.op = "unlock", !.perm = c.perm]

\* catch (err) of the lock path: setError(err.message || ...), and
\* document.exitFullscreen().catch(() => {}) when document.fullscreenElement
\* is set (fsNow); the platform leaves fullscreen or rejects the call
LockCatch(i, message, result, fsNow) ==
  /\ error' = LockErrorMessage(message)
  /\ IF fsNow
     THEN \E ok \in BOOLEAN :
            /\ fullscreen' = ~ok
            /\ Finish(i, [result EXCEPT !.exit = IF ok THEN "left" ELSE "failed"])
     ELSE /\ fullscreen' = FALSE
          /\ Finish(i, result)

\* if (screen.orientation && screen.orientation.lock) { currentType = ...;
\* await screen.orientation.lock(currentType) ... } else throw new Error(...)
OrientationStep(i, c, err0, fsNow) ==
  IF HasOrientationLock
  THEN /\ Suspend(i, "awaitLock", c)
       /\ error' = err0
       /\ fullscreen' = fsNow
  ELSE LockCatch(i, UnsupportedMsg, [LockResult(c) EXCEPT !.lock = "unsupported"], fsNow)

\* try { if (document.documentElement.requestFullscreen) await ... }
LockPath(i, c, err0) ==
  /\ UNCHANGED <<isLocked, held>>
  /\ IF platform.requestFullscreen
     THEN /\ Suspend(i, "awaitFs", c)
          /\ error' = err0
          /\ UNCHANGED fullscreen
     ELSE OrientationStep(i, c, err0, fullscreen)

\* the else branch of if (!isLocked): unlock(), setIsLocked(false), and
\* await document.exitFullscreen() when document.fullscreenElement is set;
\* screen.orientation.unlock() may throw
UnlockPath(i, c, err0) ==
  /\ UNCHANGED fullscreen
  /\ IF HasOrientationUnlock
     THEN \E threw \in BOOLEAN :
            IF threw
            THEN /\ error' = UnlockFailedMsg
                 /\ Finish(i, [UnlockResult(c) EXCEPT !.unlock = "threw"])
                 /\ UNCHANGED <<isLocked, held>>
            ELSE /\ held' = FALSE
                 /\ isLocked' = IsLockedAfterUnlock(isLocked)
                 /\ error' = err0
                 /\ IF fullscreen
                    THEN Suspend(i, "awaitExit", c)
                    ELSE Finish(i, [UnlockResult(c) EXCEPT !.unlock = "done"])
     ELSE /\ error' = err0
          /\ Finish(i, UnlockResult(c))
          /\ UNCHANGED <<isLocked, held>>

\* if (!isLocked) { ... } else { ... }, with the isLocked of the render the
\* invocation was started in
Branch(i, c, err0) ==
  IF ~c.cLocked THEN LockPath(i, c, err0) ELSE UnlockPath(i, c, err0)

\* onClick={toggleLock}: setError(""), then requestOrientationPermission()
\* when permission is not granted yet, then the lock or the unlock path up
\* to its first await of the platform
Toggle(i) ==
  /\ inv[i].pc = "idle"
  /\ LET c == [Idle EXCEPT !.cLocked = isLocked] IN
     IF NeedsPermission(isPermissionGranted)
     THEN IF platform.requestPermission
          THEN /\ Suspend(i, "awaitPerm", c)
               /\ error' = ""
               /\ UNCHANGED <<isLocked, held, isPermissionGranted, fullscreen>>
          ELSE /\ isPermissionGranted' = TRUE
               /\ Branch(i, c, "")
     ELSE /\ UNCHANGED isPermissionGranted
          /\ Branch(i, c, "")
  /\ UNCHANGED <<orientation, platform>>
  /\ DetectorUntouched
  /\ RunEffect

\* DeviceOrientationEvent.requestPermission() settles: 'granted', another
\* answer, or a rejection; if (!granted) return
PermissionSettled(i, permission) ==
  /\ inv[i].pc = "awaitPerm"
  /\ LET c == [inv[i] EXCEPT !.perm = permission] IN
     IF permission = "threw"
     THEN /\ error' = PermissionThrewMsg
          /\ Finish(i, LockResult(c))
          /\ UNCHANGED <<isLocked, held, isPermissionGranted, fullscreen>>
     ELSE IF PermissionGranted(permission)
          THEN /\ isPermissionGranted' = TRUE
               /\ Branch(i, c, error)
          ELSE /\ error' = PermissionDeniedMsg
               /\ Finish(i, LockResult(c))
               /\ UNCHANGED <<isLocked, held, isPermissionGranted, fullscreen>>
  /\ UNCHANGED <<orientation, platform>>
  /\ DetectorUntouched
  /\ RunEffect

\* document.documentElement.requestFullscreen() settles: resolved, the
\* document is fullscreen and the orientation step follows; rejected, the
\* await throws into the catch
FullscreenSettled(i, ok, message) ==
  /\ inv[i].pc = "awaitFs"
  /\ IF ok
     THEN OrientationStep(i, [inv[i] EXCEPT !.fs = "entered"], error, TRUE)
     ELSE LockCatch(i, message, LockResult([inv[i] EXCEPT !.fs = "rejected"]), fullscreen)
  /\ UNCHANGED <<isLocked, held, isPermissionGranted>>
  /\ UNCHANGED <<orientation, platform>>
  /\ DetectorUntouched
  /\ RunEffect

\* screen.orientation.lock(currentType) settles: resolved, setIsLocked(true)
\* and then the assignment to lastPhysicalOrientation.current, which throws
\* into the catch; rejected, the await throws into the catch
LockSettled(i, outcome, message) ==
  /\ inv[i].pc = "awaitLock"
  /\ LET result == [LockResult(inv[i]) EXCEPT !.lock = outcome]
     IN IF LockAwaitResumes(outcome)
        THEN /\ isLocked' = TRUE
             /\ IF LastPhysicalOrientationDeclared
                THEN /\ Finish(i, result)
                     /\ UNCHANGED <<error, fullscreen>>
                ELSE LockCatch(i, ReferenceErrorMsg, result, fullscreen)
        ELSE /\ LockCatch(i, message, result, fullscreen)
             /\ UNCHANGED isLocked
  /\ held' = (held \/ outcome = "resolved")
  /\ UNCHANGED isPermissionGranted
  /\ UNCHANGED <<orientation, platform>>
  /\ DetectorUntouched
  /\ RunEffect

\* await document.exitFullscreen() of the unlock path settles: rejected,
\* the catch sets "Failed to unlock orientation."
ExitSettled(i, ok) ==
  /\ inv[i].pc = "awaitExit"
  /\ IF ok
     THEN /\ fullscreen' = FALSE
          /\ UNCHANGED error
          /\ Finish(i, [UnlockResult(inv[i]) EXCEPT !.unlock = "done", !.exit = "left"])
     ELSE /\ error' = UnlockFailedMsg
          /\ UNCHANGED fullscreen
          /\ Finish(i, [UnlockResult(inv[i]) EXCEPT !.unlock = "done", !.exit = "failed"])
  /\ UNCHANGED <<isLocked, held, isPermissionGranted>>
  /\ UNCHANGED <<orientation, platform>>
  /\ DetectorUntouched
  /\ RunEffect

\* ------------------------------------------------- orientation observer
\* handleOrientationChange: setOrientation(screen.orientation.type)
OrientationChange(type) ==
  /\ platform.screenOrientation
  /\ type # orientation
  /\ orientation' = type
  /\ UNCHANGED <<isLocked, held, error, isPermissionGranted, inv, fullscreen, platform, last>>
  /\ DetectorUntouched
  /\ RunEffect

\* ----------------------------------------------------- mismatch detector
\* an excursion counts its disagreeing samples and its alerts
Counted(e, alerted) ==
  [e EXCEPT !.len = MinOf(e.len + 1, MaxRun),
            !.alerts = IF alerted THEN MinOf(e.alerts + 1, MaxRun) ELSE e.alerts]

\* a deviceorientation event: handleDeviceOrientation runs when the
\* listener is registered
Sample(beta, gamma) ==
  LET physical == Classify(beta, gamma) IN
  /\ IF listening /\ physical # ""
     THEN IF Mismatch(orientation, physical)
          THEN IF ~isAlerting
               THEN /\ Len(timers) < MaxTimers
                    /\ rotationAttempt' = TRUE
                    /\ isAIPopupOpen' = TRUE
                    /\ isAlerting' = TRUE
                    /\ timers' = Append(timers, AlertDuration)
                    /\ sinceAlert' = 0
                    /\ excursion' = Counted(excursion, TRUE)
               ELSE /\ excursion' = Counted(excursion, FALSE)
                    /\ UNCHANGED <<rotationAttempt, isAIPopupOpen, isAlerting, timers, sinceAlert>>
          ELSE /\ isAlerting' = LatchAfterAgreement(isAlerting)
               /\ excursion' = [NoExcursion EXCEPT !.rearmed = isAlerting \/ (excursion.len = 0 /\ excursion.rearmed)]
               /\ rotationAttempt' = AlertAfterAgreement(rotationAttempt)
               /\ UNCHANGED <<isAIPopupOpen, timers, sinceAlert>>
     ELSE UNCHANGED <<rotationAttempt, isAIPopupOpen, isAlerting, timers, sinceAlert, excursion>>
  /\ sample' = [physical |-> physical, k |-> 1 - sample.k]
  /\ UNCHANGED <<isLocked, orientation, error, isPermissionGranted, listening, inv,
                 fullscreen, platform, last, held, probe>>

\* a second passes; a timer that is due fires first
Tick ==
  /\ \A k \in 1..Len(timers) : timers[k] > 0
  /\ timers' = [k \in 1..Len(timers) |-> timers[k] - 1]
  /\ sinceAlert' = MinOf(sinceAlert + 1, AlertDuration)
  /\ UNCHANGED <<isLocked, orientation, rotationAttempt, error, isAIPopupOpen,
                 isPermissionGranted, listening, isAlerting, inv, fullscreen, platform,
                 last, excursion, sample, held, probe>>

\* the callback of setTimeout(() => setRotationAttempt(false), 3000)
TimerFires ==
  /\ timers # <<>>
  /\ timers[1] = 0
  /\ rotationAttempt' = AlertAfterTimer(rotationAttempt)
  /\ timers' = Tail(timers)
  /\ UNCHANGED <<isLocked, orientation, error, isAIPopupOpen, isPermissionGranted,
                 listening, isAlerting, inv, fullscreen, platform, last, excursion,
                 sinceAlert, sample, held, probe>>

\* onClick={() => setIsAIPopupOpen(false)} of the popup
DismissPopup ==
  /\ isAIPopupOpen
  /\ isAIPopupOpen' = FALSE
  /\ UNCHANGED <<isLocked, orientation, rotationAttempt, error, isPermissionGranted,
                 listening, isAlerting, timers, inv, fullscreen, platform, last,
                 excursion, sinceAlert, sample, held, probe>>

\* the steps of the toggleLock invocations in I
Orchestrator(I) ==
  \/ \E i \in I : Toggle(i)
  \/ \E i \in I, p \in {"granted", "denied", "threw"} : PermissionSettled(i, p)
  \/ \E i \in I, ok \in BOOLEAN, m \in RejectMessages : FullscreenSettled(i, ok, m)
  \/ \E i \in I, o \in {"resolved", "rejected"}, m \in RejectMessages : LockSettled(i, o, m)
  \/ \E i \in I, ok \in BOOLEAN : ExitSettled(i, ok)

Observer == \E t \in OrientationTypes : OrientationChange(t)

Detector ==
  \/ \E s \in SampleInputs : Sample(s[1], s[2])
  \/ Tick
  \/ TimerFires
  \/ DismissPopup

\* the lock orchestrator, with overlapping invocations, and the orientation
\* observer; no tilt sample is delivered (toggleLock reads nothing that the
\* detector writes)
Next == Orchestrator(Invocations) \/ Observer

Spec == Init /\ [][Next]_vars

\* the whole component, with one toggleLock invocation at a time
DetectorNext == Orchestrator({1}) \/ Observer \/ Detector

DetectorSpec == Init /\ [][DetectorNext]_vars

\* the detector with its timers: a second passes and a callback that is due
\* runs, as the event loop guarantees for setTimeout
\* on the browser that has every capability the page asks for
FairDetectorInit ==
  /\ Init
  /\ platform = [screenOrientation |-> TRUE, lock |-> TRUE,
                 requestFullscreen |-> TRUE, requestPermission |-> TRUE]

FairDetectorSpec ==
  FairDetectorInit /\ [][DetectorNext]_vars /\ WF_vars(Tick) /\ WF_vars(TimerFires)

\* the classification alone: every integer pair of angles is given to the
\* first lines of handleDeviceOrientation once
ClassifyInit ==
  /\ probe \in [beta : -MaxBeta..MaxBeta, gamma : -MaxGamma..MaxGamma,
                physical : {""}, done : {FALSE}]
  /\ platform = [screenOrientation |-> TRUE, lock |-> TRUE,
                 requestFullscreen |-> TRUE, requestPermission |-> TRUE]
  /\ orientation = "portrait-primary"
  /\ isLocked = FALSE
  /\ rotationAttempt = FALSE
  /\ error = ""
  /\ isAIPopupOpen = FALSE
  /\ isPermissionGranted = FALSE
  /\ listening = FALSE
  /\ isAlerting = FALSE
  /\ timers = <<>>
  /\ inv = [i \in Invocations |-> Idle]
  /\ fullscreen = FALSE
  /\ last = NoOp
  /\ excursion = NoExcursion
  /\ sinceAlert = AlertDuration
  /\ sample = NoSample
  /\ held = FALSE

\* const { beta, gamma } = event and the if / else if that sets
\* currentPhysical
ClassifyProbe ==
  /\ ~probe.done
  /\ probe' = [probe EXCEPT !.physical = Classify(probe.beta, probe.gamma), !.done = TRUE]
  /\ UNCHANGED <<isLocked, orientation, rotationAttempt, error, isAIPopupOpen,
                 isPermissionGranted, listening, isAlerting, timers, inv, fullscreen,
                 platform, last, excursion, sinceAlert, sample, held>>

ClassifySpec == ClassifyInit /\ [][ClassifyProbe]_vars

\* ------------------------------------------------------------- claims
\* a toggleLock invocation returns in this step
Finishes == last'.n # last.n

\* invocation i leaves the await it is suspended at in this step
Leaves(i, at) == inv[i].pc = at /\ inv'[i].pc # at

\* C1: isLocked becomes true only in the step in which an invocation
\* resumes from await screen.orientation.lock(...) with the promise
\* resolved, on a platform that has the orientation lock; a lock that is
\* unsupported, rejected or never requested does not set it.
C1_LockedOnlyByResolvedLock ==
  [][(~isLocked /\ isLocked') =>
       /\ HasOrientationLock
       /\ Finishes
       /\ last'.op = "lock"
       /\ last'.lock = "resolved"
       /\ \E i \in Invocations : Leaves(i, "awaitLock")]_vars

C1_Witness == isLocked /\ last.op = "lock" /\ last.lock = "resolved"

\* C2: rotationAttempt goes from false to true only in a step taken with
\* isLocked true (and left true); a tilt sample delivered while isLocked is
\* false raises no alert.
C2_AlertOnlyWhileLocked ==
  [][(~rotationAttempt /\ rotationAttempt') => (isLocked /\ isLocked')]_vars

C2_Witness == rotationAttempt /\ isLocked /\ sinceAlert = 0 /\ Len(timers) = 1

\* C3: when the permission request of an invocation is answered with
\* anything but 'granted', or throws, the invocation returns in that step:
\* isLocked is unchanged, an error message is set, and the invocation has
\* requested neither fullscreen nor the orientation lock (nor left
\* fullscreen).
C3_DeniedPermissionAborts ==
  [][\A i \in Invocations :
       (Leaves(i, "awaitPerm")
          /\ \/ inv'[i].perm \in {"denied", "threw"}
             \/ (Finishes /\ last'.perm \in {"denied", "threw"}))
       => /\ inv'[i].pc = "idle"
          /\ Finishes
          /\ last'.fs = "none" /\ last'.lock = "none" /\ last'.exit = "none"
          /\ isLocked' = isLocked
          /\ fullscreen' = fullscreen
          /\ error' \in {PermissionDeniedMsg, PermissionThrewMsg}]_vars

C3_Witness ==
  /\ last.op = "lock" /\ last.perm = "denied"
  /\ last.fs = "none" /\ last.lock = "none"
  /\ ~isLocked /\ error = PermissionDeniedMsg

\* C4: while isLocked stays true, a run of samples that all disagree with
\* the class (portrait or landscape) of the logical orientation has raised
\* exactly one alert, however long the run is.
C4_OneAlertPerExcursion == excursion.len >= 1 => excursion.alerts = 1

\* C5: after an alert, one sample that agrees with the logical orientation
\* re-arms the detector: the next disagreeing sample raises an alert, the
\* first of its excursion, and starts a timer.
C5_RearmedAfterAgreement ==
  [][(excursion.rearmed /\ excursion.len = 0 /\ excursion'.len = 1) =>
       /\ rotationAttempt'
       /\ isAIPopupOpen'
       /\ isAlerting'
       /\ excursion'.alerts = 1
       /\ timers' = Append(timers, AlertDuration)]_vars

\* two alerts within the alert duration: both timers are pending
C5_Witness ==
  /\ excursion.rearmed /\ excursion.len = 1 /\ excursion.alerts = 1
  /\ rotationAttempt /\ Len(timers) = 2

\* C6: at most one auto-clear timer is pending, and no timer comes due
\* before the latest alert has been shown for the whole alert duration.
C6_OneTimerFullDuration ==
  /\ Len(timers) <= 1
  /\ (timers # <<>> /\ timers[1] = 0) => sinceAlert >= AlertDuration

\* C7: a lock operation started with no error shown whose orientation-lock
\* request resolves returns with isLocked true and error still empty.
C7_LockSucceedsWithoutError ==
  [][\A i \in Invocations :
       (Leaves(i, "awaitLock") /\ Finishes /\ last'.lock = "resolved" /\ error = "")
       => (isLocked' /\ error' = "")]_vars

\* C8: when the fullscreen request of a lock operation is rejected, the
\* operation goes on to the orientation step: it requests the orientation
\* lock where the platform has one.
C8_LockGoesOnAfterFullscreenFails ==
  [][\A i \in Invocations :
       (Leaves(i, "awaitFs")
          /\ ~(inv'[i].fs = "entered" \/ (Finishes /\ last'.fs = "entered"))
          /\ HasOrientationLock)
       => inv'[i].pc = "awaitLock"]_vars

\* C9: no step in which an awaited fullscreen call fails (the
\* requestFullscreen of the lock path, the exitFullscreen of the unlock
\* path) changes the error message.
C9_FullscreenFailureNotSurfaced ==
  [][\A i \in Invocations :
       \/ (Leaves(i, "awaitFs") /\ Finishes /\ last'.fs = "rejected")
       \/ (Leaves(i, "awaitExit") /\ Finishes /\ last'.exit = "failed")
       => error' = error]_vars

\* C10: when the orientation step of a lock operation fails (no
\* orientation lock on the platform, or the request rejected), the
\* operation returns in that step with isLocked unchanged and a non-empty
\* error message, and it has called exitFullscreen if the document was
\* fullscreen (also when it entered fullscreen in that very step).
C10_LockFailureCompensates ==
  [][(Finishes /\ last'.op = "lock" /\ last'.lock \in {"unsupported", "rejected"}) =>
       /\ isLocked' = isLocked
       /\ error' # ""
       /\ (fullscreen \/ \E i \in Invocations : Leaves(i, "awaitFs"))
            => last'.exit \in {"left", "failed"}
       /\ last'.exit = "left" => ~fullscreen']_vars

C10_Witness ==
  /\ last.op = "lock" /\ last.lock = "rejected" /\ last.fs = "entered"
  /\ last.exit = "left" /\ ~fullscreen
  /\ ~isLocked /\ error = LockFallbackMsg

\* C11: when an unlock operation fails (screen.orientation.unlock() throws,
\* or the awaited exitFullscreen() rejects, so that "Failed to unlock
\* orientation." is shown), isLocked is what it was when the operation
\* started: still true.
C11_FailedUnlockStaysLocked ==
  [][(Finishes /\ last'.op = "unlock"
        /\ (last'.unlock = "threw" \/ last'.exit = "failed")
        /\ error' = UnlockFailedMsg)
       => isLocked']_vars

\* portrait, landscape or unknown: the class of a logical orientation
LogicalClass(o) ==
  IF o \in {"portrait-primary", "portrait-secondary"} THEN "portrait"
  ELSE IF o \in {"landscape-primary", "landscape-secondary"} THEN "landscape"
  ELSE "unknown"

\* a deviceorientation event is delivered in this step
Sampled == sample'.k # sample.k

\* C12: while isLocked is true, a sample that is classified to the class of
\* the logical orientation, or not classified at all, raises no alert: it
\* leaves rotationAttempt, the popup flag and the timers as they were, so a
\* sequence of such samples produces no alert.
C12_AgreeingSamplesRaiseNothing ==
  [][(Sampled /\ isLocked /\ sample'.physical \in {"", LogicalClass(orientation)}) =>
       /\ rotationAttempt' = rotationAttempt
       /\ isAIPopupOpen' = isAIPopupOpen
       /\ timers' = timers
       /\ sinceAlert' = sinceAlert]_vars

C12_Witness ==
  /\ isLocked /\ listening
  /\ sample.k = 1 /\ sample.physical = LogicalClass(orientation)
  /\ ~rotationAttempt /\ timers = <<>>

\* C13: after every step the deviceorientation listener is registered only
\* if isPermissionGranted is true, isLocked is true only if
\* isPermissionGranted is true, and isPermissionGranted, once true, is
\* still true.
C13_PermissionBeforeSubscription ==
  [][/\ listening' => isPermissionGranted'
     /\ isLocked' => isPermissionGranted'
     /\ isPermissionGranted => isPermissionGranted']_vars

C13_Witness ==
  /\ listening /\ isLocked /\ isPermissionGranted
  /\ last.op = "lock" /\ last.perm = "granted"

\* C14: while isLocked stays true the listener stays registered and its
\* latch isAlerting goes from true to false only in the step of a sample
\* that agrees with the logical orientation; in particular an
\* orientation-change notification leaves the latch as it was.
C14_LatchClearedOnlyByAgreement ==
  [][(isLocked /\ isLocked') =>
       /\ listening'
       /\ (isAlerting /\ ~isAlerting') =>
            (Sampled /\ sample'.physical = LogicalClass(orientation))]_vars

\* C15: for every integer beta in -180..180 and gamma in -90..90 the
\* classification is portrait if 50 < |beta| < 130, otherwise landscape if
\* |gamma| > 50, otherwise none: the portrait test comes first and the
\* bounds are strict.  (10,80) and (5,75) are landscape, (85,5) and (60,80)
\* are portrait, (50,50) is none.
C15_Classification ==
  probe.done =>
    LET b == probe.beta
        g == probe.gamma
        absb == IF b < 0 THEN 0 - b ELSE b
        absg == IF g < 0 THEN 0 - g ELSE g
    IN /\ probe.physical = (IF 50 < absb /\ absb < 130 THEN "portrait"
                            ELSE IF absg > 50 THEN "landscape"
                            ELSE "")
       /\ (<<b, g>> \in {<<10, 80>>, <<5, 75>>}) => probe.physical = "landscape"
       /\ (<<b, g>> \in {<<85, 5>>, <<60, 80>>}) => probe.physical = "portrait"
       /\ (<<b, g>> = <<50, 50>>) => probe.physical = ""

\* the pair that both tests accept is classified portrait
C15_Witness ==
  probe.done /\ probe.beta = 60 /\ probe.gamma = 80 /\ probe.physical = "portrait"

\* C16: a sample that agrees with the locked orientation clears the latch
\* of the listener and nothing else: AlertState, the popup and the pending
\* timers are as before, and an AlertState that is true becomes false only
\* in a step in which an auto-clear timer fires.
C16_AgreementClearsOnlyLatch ==
  [][/\ (Sampled /\ listening /\ sample'.physical = LogicalClass(orientation)) =>
          /\ ~isAlerting'
          /\ rotationAttempt' = rotationAttempt
          /\ isAIPopupOpen' = isAIPopupOpen
          /\ timers' = timers
     /\ (rotationAttempt /\ ~rotationAttempt') =>
          (Len(timers) > 0 /\ timers[1] = 0 /\ timers' = Tail(timers))]_vars

\* an agreeing sample has just cleared the latch while the alert of the
\* excursion before is still shown and its timer is pending
C16_Witness ==
  /\ isLocked /\ listening /\ ~isAlerting
  /\ sample.physical = LogicalClass(orientation)
  /\ excursion.len = 0 /\ excursion.rearmed
  /\ rotationAttempt /\ timers # <<>>

\* C17: at most one lock/unlock operation is in flight: no two toggleLock
\* invocations are suspended at an await at the same time.
C17_OneOperationInFlight ==
  Cardinality({i \in Invocations : inv[i].pc # "idle"}) <= 1

\* C18: every alert is eventually cleared.  When time passes and due timer
\* callbacks run, an AlertState that is true becomes false again, also when
\* the unlock or the removal of the listener comes before the timer fires,
\* and AlertState is false whenever no timer is pending.
C18_AlertEventuallyCleared ==
  /\ rotationAttempt ~> ~rotationAttempt
  /\ [](timers = <<>> => ~rotationAttempt)

\* the alert is shown and its timer is pending although the lock has been
\* released and the listener removed
C18_Witness ==
  /\ rotationAttempt /\ timers # <<>>
  /\ ~isLocked /\ ~listening
  /\ last.op = "unlock"

\* C19: a lock operation whose orientation-lock request resolved never
\* calls exit-fullscreen: it completes without an exit, and a fullscreen
\* that is active before its last step is active after it.
C19_SuccessfulLockKeepsFullscreen ==
  [][(Finishes /\ last'.op = "lock" /\ last'.lock = "resolved") =>
       /\ last'.exit = "none"
       /\ fullscreen => fullscreen']_vars

\* C20: whatever the interleaving of overlapping toggleLock invocations and
\* of the completions they wait for, when no invocation is pending isLocked
\* is true exactly when the platform holds the orientation lock, which a
\* resolved lock request sets and only an unlock request releases.
C20_QuiescentLockAgreement ==
  (\A i \in Invocations : inv[i].pc = "idle") => (isLocked = held)

\* nothing is pending and the lock is held although the invocation that
\* finished last released it: a lock request of an overlapping invocation
\* resolved while that one awaited the exit from fullscreen
C20_Witness ==
  /\ \A i \in Invocations : inv[i].pc = "idle"
  /\ last.op = "unlock" /\ last.unlock = "done"
  /\ isLocked /\ held
====
